---- MODULE Spec2Model ----
(***************************************************************************)
(* Event-stream ingestion and cancellable request lifecycle of the Xenobot *)
(* IPC shim (crates/web/frontend/public/shim.js): consumeSseResponse,      *)
(* postSse, subscribeSse, llmApi.chatStream, agentApi.runStream,           *)
(* agentApi.abort with the registry activeAgentRequests, and the polling   *)
(* of chatApi.onImportProgress.                                            *)
(*                                                                         *)
(* Text is a sequence of characters.  A character is a one-element string, *)
(* except for the JSON atoms (JC, JT, JD, ...), each of which stands for   *)
(* the characters of one complete JSON text (no framing code looks inside  *)
(* a payload, JSON.parse alone does).                                      *)
(***************************************************************************)
EXTENDS Integers, Sequences, FiniteSets, TLC

\* ------------------------------------------------------------ characters

CR == "CR"

LF == "LF"

SP == "SP"

\* The two bytes of U+00E9 in UTF-8, the character they decode to, and the
\* replacement character U+FFFD a malformed sequence decodes to.
LeadByte == "C3"

ContByte == "A9"

EAcute == "U00E9"

Repl == "UFFFD"

\* JSON atoms: {"type":"content","content":"H"}, {"type":"tool_start",
\* "tool_name":"search"}, {"type":"done","usage":{"tokens":5}}.
JC == "JC"

JT == "JT"

JD == "JD"

\* More JSON atoms: {"type":"content","content":"i"}, {"type":"done",
\* "usage":{"tokens":9}}, null, {"type":"ping","content":"x"}, 7, [7].
JI == "JI"

JU == "JU"

JN == "JN"

JX == "JX"

J7 == "J7"

JA == "JA"

\* JSON atoms with a camel-case key on the wire and with snake-case keys
\* below the top: {"type":"tool_start","toolName":"search"},
\* {"type":"ping","tool_args":[{"max_results":7}]}.
JK == "JK"

JG == "JG"

\* JSON atoms of the import progress: {"status":"parsing","total":4,
\* "processed":1,"current_file":"a"}, {"status":"Completed","total":4,
\* "processed":4}, {"status":"failed","error":"boom"}, {"status":"idle"},
\* {"status":"queued","total":8,"processed":3}.
JP1 == "JP1"

JP2 == "JP2"

JP3 == "JP3"

JP4 == "JP4"

JP5 == "JP5"

\* String.prototype.trim / trimStart white space (of the model's alphabet).
WhiteSpace == {SP, CR, LF}

\* line.startsWith('data:')
DataPrefix == <<"d", "a", "t", "a", ":">>

\* ------------------------------------------------------------ TextDecoder

\* One byte through the streaming UTF-8 decoder; st = [out, pend], pend
\* saying that a lead byte waits for its continuation byte.
DecodeByte(st, b) ==
  IF st.pend
    THEN IF b = ContByte
           THEN [out |-> Append(st.out, EAcute), pend |-> FALSE]
           ELSE IF b = LeadByte
                  THEN [out |-> Append(st.out, Repl), pend |-> TRUE]
                  ELSE [out |-> st.out \o <<Repl, b>>, pend |-> FALSE]
    ELSE IF b = LeadByte
           THEN [out |-> st.out, pend |-> TRUE]
           ELSE IF b = ContByte
                  THEN [out |-> Append(st.out, Repl), pend |-> FALSE]
                  ELSE [out |-> Append(st.out, b), pend |-> FALSE]

RECURSIVE DecodeFrom(_, _)
DecodeFrom(st, bytes) ==
  IF bytes = <<>> THEN st ELSE DecodeFrom(DecodeByte(st, Head(bytes)), Tail(bytes))

\* decoder.decode(value, { stream: true }) with the decoder holding `pend`.
DecodeStream(bytes, pend) == DecodeFrom([out |-> <<>>, pend |-> pend], bytes)

\* decoder.decode(): the end of the input; a pending lead byte is malformed.
DecodeFlush(pend) == IF pend THEN <<Repl>> ELSE <<>>

\* ------------------------------------------------------------ strings

\* text.replace(/\r\n/g, '\n')
RECURSIVE ReplaceCRLF(_)
ReplaceCRLF(s) ==
  IF s = <<>> THEN <<>>
  ELSE IF Len(s) >= 2 /\ s[1] = CR /\ s[2] = LF
         THEN <<LF>> \o ReplaceCRLF(SubSeq(s, 3, Len(s)))
         ELSE <<s[1]>> \o ReplaceCRLF(Tail(s))

\* Mutant of IndexOfDelim: buffer.lastIndexOf('\n\n').
LastIndexOfDelim(s) ==
  LET hits == {i \in 1..(Len(s) - 1) : s[i] = LF /\ s[i + 1] = LF}
  IN  IF hits = {} THEN 0 ELSE CHOOSE i \in hits : \A j \in hits : i >= j

\* buffer.indexOf('\n\n'), 1-based; 0 where JavaScript answers -1.
IndexOfDelim(s) ==
  LET hits == {i \in 1..(Len(s) - 1) : s[i] = LF /\ s[i + 1] = LF}
  IN  IF hits = {} THEN 0 ELSE CHOOSE i \in hits : \A j \in hits : i <= j

RECURSIVE TrimStart(_)
TrimStart(s) ==
  IF s # <<>> /\ Head(s) \in WhiteSpace THEN TrimStart(Tail(s)) ELSE s

RECURSIVE TrimEnd(_)
TrimEnd(s) ==
  IF s # <<>> /\ s[Len(s)] \in WhiteSpace THEN TrimEnd(SubSeq(s, 1, Len(s) - 1)) ELSE s

Trim(s) == TrimEnd(TrimStart(s))

StartsWith(s, p) == Len(s) >= Len(p) /\ SubSeq(s, 1, Len(p)) = p

\* block.split('\n'): a sequence of lines, never empty.
RECURSIVE SplitLines(_)
SplitLines(s) ==
  LET hits == {i \in 1..Len(s) : s[i] = LF}
  IN  IF hits = {} THEN <<s>>
      ELSE LET i == CHOOSE k \in hits : \A j \in hits : k <= j
           IN  <<SubSeq(s, 1, i - 1)>> \o SplitLines(SubSeq(s, i + 1, Len(s)))

\* lines.join('\n')
RECURSIVE JoinLines(_)
JoinLines(ls) ==
  IF ls = <<>> THEN <<>>
  ELSE IF Len(ls) = 1 THEN ls[1]
  ELSE ls[1] \o <<LF>> \o JoinLines(Tail(ls))

\* ------------------------------------------------------------ JSON values

\* A JavaScript value: t is its type tag, s the characters of a string, n a
\* number, kv the <<key, value>> entries of an object in insertion order, a
\* the items of an array.  A key is a sequence of one-letter strings.
JStr(s) == [t |-> "str", s |-> s, n |-> 0, kv |-> <<>>, a |-> <<>>]

JNum(n) == [t |-> "num", s |-> <<>>, n |-> n, kv |-> <<>>, a |-> <<>>]

JObj(kv) == [t |-> "obj", s |-> <<>>, n |-> 0, kv |-> kv, a |-> <<>>]

JArr(a) == [t |-> "arr", s |-> <<>>, n |-> 0, kv |-> <<>>, a |-> a]

JNull == [t |-> "null", s |-> <<>>, n |-> 0, kv |-> <<>>, a |-> <<>>]

JUndefined == [t |-> "undefined", s |-> <<>>, n |-> 0, kv |-> <<>>, a |-> <<>>]

KeyType == <<"t", "y", "p", "e">>

KeyContent == <<"c", "o", "n", "t", "e", "n", "t">>

KeyToolNameWire == <<"t", "o", "o", "l", "_", "n", "a", "m", "e">>

KeyToolName == <<"t", "o", "o", "l", "N", "a", "m", "e">>

KeyUsage == <<"u", "s", "a", "g", "e">>

KeyTokens == <<"t", "o", "k", "e", "n", "s">>

KeyToolArgsWire == <<"t", "o", "o", "l", "_", "a", "r", "g", "s">>

KeyMaxResultsWire == <<"m", "a", "x", "_", "r", "e", "s", "u", "l", "t", "s">>

KeyToolArgs == <<"t", "o", "o", "l", "A", "r", "g", "s">>

KeyMaxResults == <<"m", "a", "x", "R", "e", "s", "u", "l", "t", "s">>

KeyStatus == <<"s", "t", "a", "t", "u", "s">>

KeyTotal == <<"t", "o", "t", "a", "l">>

KeyProcessed == <<"p", "r", "o", "c", "e", "s", "s", "e", "d">>

KeyError == <<"e", "r", "r", "o", "r">>

KeyCurrentFileWire == <<"c", "u", "r", "r", "e", "n", "t", "_", "f", "i", "l", "e">>

KeyCurrentFile == <<"c", "u", "r", "r", "e", "n", "t", "F", "i", "l", "e">>

\* The values of the string literals the aggregator compares with.
TypeContent == <<"content">>

TypeToolStart == <<"tool_start">>

TypeDone == <<"done">>

TypePing == <<"ping">>

\* What JSON.parse makes of each JSON atom.
ProgressAtoms == {JP1, JP2, JP3, JP4, JP5}

JsonAtoms == {JC, JT, JD, JI, JU, JN, JX, J7, JA, JK, JG}

JsonValue(atom) ==
  CASE atom = JC -> JObj(<< <<KeyType, JStr(TypeContent)>>, <<KeyContent, JStr(<<"H">>)>> >>)
    [] atom = JT -> JObj(<< <<KeyType, JStr(TypeToolStart)>>, <<KeyToolNameWire, JStr(<<"search">>)>> >>)
    [] atom = JD -> JObj(<< <<KeyType, JStr(TypeDone)>>,
                            <<KeyUsage, JObj(<< <<KeyTokens, JNum(5)>> >>)>> >>)
    [] atom = JI -> JObj(<< <<KeyType, JStr(TypeContent)>>, <<KeyContent, JStr(<<"i">>)>> >>)
    [] atom = JU -> JObj(<< <<KeyType, JStr(TypeDone)>>,
                            <<KeyUsage, JObj(<< <<KeyTokens, JNum(9)>> >>)>> >>)
    [] atom = JN -> JNull
    [] atom = JX -> JObj(<< <<KeyType, JStr(TypePing)>>, <<KeyContent, JStr(<<"x">>)>> >>)
    [] atom = J7 -> JNum(7)
    [] atom = JA -> JArr(<<JNum(7)>>)
    [] atom = JK -> JObj(<< <<KeyType, JStr(TypeToolStart)>>, <<KeyToolName, JStr(<<"search">>)>> >>)
    [] atom = JG -> JObj(<< <<KeyType, JStr(TypePing)>>,
                            <<KeyToolArgsWire,
                              JArr(<< JObj(<< <<KeyMaxResultsWire, JNum(7)>> >>) >>)>> >>)
    [] atom = JP1 -> JObj(<< <<KeyStatus, JStr(<<"p", "a", "r", "s", "i", "n", "g">>)>>, <<KeyTotal, JNum(4)>>,
                             <<KeyProcessed, JNum(1)>>, <<KeyCurrentFileWire, JStr(<<"a">>)>> >>)
    [] atom = JP2 -> JObj(<< <<KeyStatus, JStr(<<"C", "o", "m", "p", "l", "e", "t", "e", "d">>)>>, <<KeyTotal, JNum(4)>>,
                             <<KeyProcessed, JNum(4)>> >>)
    [] atom = JP3 -> JObj(<< <<KeyStatus, JStr(<<"f", "a", "i", "l", "e", "d">>)>>, <<KeyError, JStr(<<"boom">>)>> >>)
    [] atom = JP4 -> JObj(<< <<KeyStatus, JStr(<<"i", "d", "l", "e">>)>> >>)
    [] atom = JP5 -> JObj(<< <<KeyStatus, JStr(<<"q", "u", "e", "u", "e", "d">>)>>, <<KeyTotal, JNum(8)>>,
                             <<KeyProcessed, JNum(3)>> >>)

\* JSON.parse(text): [ok, value]; white space around the one JSON text is
\* skipped, anything else is a SyntaxError.
JsonParse(text) ==
  LET core == Trim(text)
  IN  IF Len(core) = 1 /\ core[1] \in JsonAtoms \cup ProgressAtoms
        THEN [ok |-> TRUE, value |-> JsonValue(core[1])]
        ELSE [ok |-> FALSE, value |-> JUndefined]

Lower == <<"a", "b", "c", "d", "e", "f", "g", "h", "i", "j", "k", "l", "m",
           "n", "o", "p", "q", "r", "s", "t", "u", "v", "w", "x", "y", "z">>

Upper == <<"A", "B", "C", "D", "E", "F", "G", "H", "I", "J", "K", "L", "M",
           "N", "O", "P", "Q", "R", "S", "T", "U", "V", "W", "X", "Y", "Z">>

IsLower(c) == \E i \in DOMAIN Lower : Lower[i] = c

ToUpperCase(c) == Upper[CHOOSE i \in DOMAIN Lower : Lower[i] = c]

\* String(key).replace(/_([a-z])/g, (_, c) => c.toUpperCase())
RECURSIVE snakeToCamel(_)
snakeToCamel(key) ==
  IF key = <<>> THEN <<>>
  ELSE IF Len(key) >= 2 /\ key[1] = "_" /\ IsLower(key[2])
         THEN <<ToUpperCase(key[2])>> \o snakeToCamel(SubSeq(key, 3, Len(key)))
         ELSE <<key[1]>> \o snakeToCamel(Tail(key))

\* out[k] = v on an object's entries: an existing key keeps its place.
ObjPut(kv, k, v) ==
  IF \E i \in DOMAIN kv : kv[i][1] = k
    THEN [i \in DOMAIN kv |-> IF kv[i][1] = k THEN <<k, v>> ELSE kv[i]]
    ELSE Append(kv, <<k, v>>)

RECURSIVE toCamelDeep(_)
RECURSIVE CamelEntries(_, _)
CamelEntries(kv, out) ==
  IF kv = <<>> THEN out
  ELSE CamelEntries(Tail(kv), ObjPut(out, snakeToCamel(kv[1][1]), toCamelDeep(kv[1][2])))

\* Mutant of toCamelDeep: an array is returned as it is.
toCamelDeepArraysSkipped(value) ==
  IF value.t = "obj" THEN JObj(CamelEntries(value.kv, <<>>)) ELSE value

\* toCamelDeep(value): arrays item by item, objects entry by entry.
toCamelDeep(value) ==
  IF value.t = "arr" THEN JArr([i \in DOMAIN value.a |-> toCamelDeep(value.a[i])])
  ELSE IF value.t = "obj" THEN JObj(CamelEntries(value.kv, <<>>))
  ELSE value

IsUpper(c) == \E i \in DOMAIN Upper : Upper[i] = c

\* s.toLowerCase(), character by character.
ToLowerCase(s) ==
  [i \in DOMAIN s |-> IF IsUpper(s[i]) THEN Lower[CHOOSE k \in DOMAIN Upper : Upper[k] = s[i]]
                      ELSE s[i]]

\* Reading a property of the value throws a TypeError.
Nullish(value) == value.t \in {"null", "undefined"}

\* chunk.key on a value that is not null or undefined.
Get(value, key) ==
  IF value.t = "obj" /\ \E i \in DOMAIN value.kv : value.kv[i][1] = key
    THEN value.kv[CHOOSE i \in DOMAIN value.kv : value.kv[i][1] = key][2]
    ELSE JUndefined

\* The truthiness of a value in a condition.
Truthy(value) ==
  CASE value.t = "str" -> value.s # <<>>
    [] value.t = "num" -> value.n # 0
    [] value.t \in {"obj", "arr"} -> TRUE
    [] OTHER -> FALSE

\* The string `content += value` appends.
ToText(value) ==
  CASE value.t = "str" -> value.s
    [] value.t = "num" -> <<"#number">>
    [] value.t = "obj" -> <<"[object Object]">>
    [] value.t = "arr" -> <<"#array">>
    [] OTHER -> <<"#other">>

\* ------------------------------------------------------------ emitBlock

\* lines.filter(startsWith('data:')).map(slice(5).trimStart()).join('\n')
RECURSIVE DataLines(_)
DataLines(lines) ==
  IF lines = <<>> THEN <<>>
  ELSE IF StartsWith(Head(lines), DataPrefix)
         THEN <<TrimStart(SubSeq(Head(lines), Len(DataPrefix) + 1, Len(Head(lines))))>>
              \o DataLines(Tail(lines))
         ELSE DataLines(Tail(lines))

DataText(block) == JoinLines(DataLines(SplitLines(block)))

\* Mutant of DecodeBlock: no catch around JSON.parse; a payload that is
\* not JSON gives no event.
DecodeBlockStrict(block) ==
  IF block = <<>> THEN <<>>
  ELSE LET dataText == DataText(block)
       IN  IF dataText = <<>> THEN <<>>
           ELSE LET parsed == JsonParse(dataText)
                IN  IF parsed.ok THEN <<toCamelDeep(parsed.value)>> ELSE <<>>

\* Mutant of DecodeBlock: no `if (!dataText) return`; an empty payload is
\* not JSON and gives the fallback event.
DecodeBlockEmptyKept(block) ==
  IF block = <<>> THEN <<>>
  ELSE LET dataText == DataText(block)
           parsed == JsonParse(dataText)
       IN  <<toCamelDeep(IF parsed.ok THEN parsed.value
                         ELSE JObj(<< <<KeyContent, JStr(dataText)>> >>))>>

\* The event emitBlock decodes from a block, as a sequence of no or one event.
DecodeBlock(block) ==
  IF block = <<>> THEN <<>>
  ELSE LET dataText == DataText(block)
       IN  IF dataText = <<>> THEN <<>>
           ELSE LET parsed == JsonParse(dataText)
                IN  <<toCamelDeep(IF parsed.ok THEN parsed.value
                                  ELSE JObj(<< <<KeyContent, JStr(dataText)>> >>))>>

\* ------------------------------------------------------------ bounds

\* Date.now() runs from 0 to MaxClock.
MaxClock == 1

\* Math.random() draws one of MaxRand values.
MaxRand == 2

\* Abort calls from outside an observer are made while fewer than
\* MaxPending abort notifications are in flight.
MaxPending == 1

\* A response body of the framing specification is made of at most
\* MaxPieces pieces.
MaxPieces == 3

\* chatApi.onImportProgress issues at most MaxPolls progress requests.
MaxPolls == 3

\* A response body of the aggregation specification and of the subscription
\* specification holds at most MaxEvents records.
MaxEvents == 3

\* ------------------------------------------------------------ state

\* The runStream calls of the model; each is made at most once.
Req == {"r1", "r2"}

VARIABLES
  clock,                \* Date.now()
  activeAgentRequests,  \* the registry: requestId -> the request whose AbortController it holds
  notes,                \* abort notifications (POST /agent/abort/<id>) in flight
  abortSettled,         \* how the last finished abort call settled
  rq,                   \* per request: the locals of runStream, postSse, consumeSseResponse
  signal,               \* per request: controller.signal.aborted
  delivered,            \* per request: the events the caller's onChunk was invoked with
  hist,                 \* per request: history, see NoHist
  poller                \* the closure of chatApi.onImportProgress, see NoPoller

vars == <<clock, activeAgentRequests, notes, abortSettled, rq, signal, delivered, hist, poller>>

\* randomId('agent'): `agent_${Date.now()}_${Math.random()...}`
randomId(now, rnd) == [time |-> now, rand |-> rnd]

Ids == {randomId(now, rnd) : now \in 0..MaxClock, rnd \in 1..MaxRand}

NoId == [time |-> 0 - 1, rand |-> 0]

\* The caller's onChunk: absent, returning, throwing on its at-th event, or
\* calling agentApi.abort(requestId) on its at-th event.
Observer(kind, at) == [kind |-> kind, at |-> at]

NoResult ==
  [settled |-> FALSE, success |-> FALSE, error |-> "", content |-> <<>>,
   toolsUsed |-> <<>>, toolRounds |-> 0, totalUsage |-> JNull]

\* How the promise of postSse settled: returned, or threw an error.
NoOutcome == [kind |-> "none", name |-> "", message |-> ""]

\* api says who made the request: agentApi.runStream ("agent"),
\* llmApi.chatStream ("chat") or subscribeSse ("subscribe").
IdleReq ==
  [pc |-> "idle", api |-> "agent", id |-> NoId, obs |-> Observer("none", 0), net |-> <<>>,
   pend |-> FALSE, buffer |-> <<>>, chunks |-> <<>>, content |-> <<>>,
   toolsUsed |-> <<>>, usage |-> JNull, outcome |-> NoOutcome, result |-> NoResult]

\* The history of a request: the body sent (wire) and the text decoded from
\* it (text) for a read loop that no rejected read has torn down, where the
\* request stood when an abort call found its entry
\* (hit), the event decodable from the buffer a rejected read dropped (lost),
\* and how often its entry went from present to absent (removals).
NoHist == [wire |-> <<>>, text |-> <<>>, hit |-> "none", lost |-> <<>>, removals |-> 0]

\* The closure of chatApi.onImportProgress: callback is what the caller's
\* callback does, active and timer are the closure's variables (timer as a
\* condition: it holds a handle), pc says what is pending: nothing yet
\* ("off"), the request of a poll ("request"), the time-out of the next poll
\* ("timer"), or nothing any more ("over").  History: polls counts the
\* requests issued, got is what the callback was invoked with, and stopAt
\* is what polls, got and pc were when the stop function was first called.
NoStop == [polls |-> 0 - 1, calls |-> 0 - 1, pc |-> "off"]

NoPoller ==
  [pc |-> "off", callback |-> "returns", active |-> FALSE, timer |-> FALSE,
   polls |-> 0, got |-> <<>>, stopAt |-> NoStop]

\* new Map()
EmptyMap == [i \in {} |-> "r1"]

Init ==
  /\ clock = 0
  /\ activeAgentRequests = EmptyMap
  /\ notes = 0
  /\ abortSettled = "none"
  /\ rq = [r \in Req |-> IdleReq]
  /\ signal = [r \in Req |-> FALSE]
  /\ delivered = [r \in Req |-> <<>>]
  /\ hist = [r \in Req |-> NoHist]
  /\ poller = NoPoller

\* ------------------------------------------------------------ registry

\* activeAgentRequests.set(id, controller)
MapSet(reg, id, r) == [i \in DOMAIN reg \cup {id} |-> IF i = id THEN r ELSE reg[i]]

\* activeAgentRequests.delete(id)
MapDelete(reg, id) == [i \in DOMAIN reg \ {id} |-> reg[i]]

\* The registry holds the controller of request r.
Registered(reg, r) == \E i \in DOMAIN reg : reg[i] = r

\* The history count of the times a request's entry went from present to absent.
Removals(old, new, h) ==
  [r \in Req |-> [h[r] EXCEPT !.removals =
                    @ + (IF Registered(old, r) /\ ~Registered(new, r) THEN 1 ELSE 0)]]

\* Mutant of AbortSync: an id that is not registered aborts and removes
\* every entry.
AbortSyncAll(w, id) ==
  IF id \in DOMAIN w.reg
    THEN LET r == w.reg[id]
         IN  [w EXCEPT !.sig[r] = TRUE,
                       !.reg = MapDelete(w.reg, id),
                       !.hit[r] = w.pcs[r],
                       !.notes = @ + 1]
    ELSE [w EXCEPT !.sig = [r \in Req |-> @[r] \/ Registered(w.reg, r)],
                   !.reg = EmptyMap,
                   !.notes = @ + 1]

\* Mutant of AbortSync: the notification is awaited first; nothing is done
\* locally before it is issued.
AbortSyncNotifyFirst(w, id) == [w EXCEPT !.notes = @ + 1]

\* The synchronous part of agentApi.abort(id), up to the fetch of the abort
\* notification, on w = [reg, sig, notes, hit, pcs, ...]; w.pcs says where
\* each request stands, for the history of which request was hit where.
AbortSync(w, id) ==
  IF id \in DOMAIN w.reg
    THEN LET r == w.reg[id]
         IN  [w EXCEPT !.sig[r] = TRUE,
                       !.reg = MapDelete(w.reg, id),
                       !.hit[r] = w.pcs[r],
                       !.notes = @ + 1]
    ELSE [w EXCEPT !.notes = @ + 1]

\* ------------------------------------------------------------ observers

\* The caller's onChunk(chunk) of runStream, when it is a function.
CallerOnChunk(w, ev) ==
  IF w.q.obs.kind = "none" THEN w
  ELSE LET n == Len(w.del) + 1
           w1 == [w EXCEPT !.del = Append(@, ev)]
       IN  IF w.q.obs.kind = "aborts" /\ w.q.obs.at = n
             THEN AbortSync(w1, w.q.id)
             ELSE w1

\* toolsUsed.add(name): a Set in insertion order.
SetAdd(seq, x) == IF \E i \in DOMAIN seq : seq[i] = x THEN seq ELSE Append(seq, x)

\* Mutant of AgentOnChunk: the live fold reads chunk.tool_name.
AgentOnChunkWireKey(w, ev) ==
  IF Nullish(ev) THEN w ELSE
  LET type == Get(ev, KeyType)
      c == Get(ev, KeyContent)
      tool == Get(ev, KeyToolNameWire)
      u == Get(ev, KeyUsage)
      q1 == [w.q EXCEPT
               !.content = IF type = JStr(TypeContent) /\ Truthy(c) THEN @ \o ToText(c) ELSE @,
               !.toolsUsed = IF type = JStr(TypeToolStart) /\ Truthy(tool) THEN SetAdd(@, tool) ELSE @,
               !.usage = IF type = JStr(TypeDone) /\ Truthy(u) THEN u ELSE @]
  IN  CallerOnChunk([w EXCEPT !.q = q1], ev)

\* Mutant of AgentOnChunk: the first usage payload is kept.
AgentOnChunkFirstUsage(w, ev) ==
  IF Nullish(ev) THEN w ELSE
  LET type == Get(ev, KeyType)
      c == Get(ev, KeyContent)
      tool == Get(ev, KeyToolName)
      u == Get(ev, KeyUsage)
      q1 == [w.q EXCEPT
               !.content = IF type = JStr(TypeContent) /\ Truthy(c) THEN @ \o ToText(c) ELSE @,
               !.toolsUsed = IF type = JStr(TypeToolStart) /\ Truthy(tool) THEN SetAdd(@, tool) ELSE @,
               !.usage = IF type = JStr(TypeDone) /\ Truthy(u) /\ @ = JNull THEN u ELSE @]
  IN  CallerOnChunk([w EXCEPT !.q = q1], ev)

\* Mutant of AgentOnChunk: the caller's observer is invoked before the fold,
\* and what it throws skips the fold.
AgentOnChunkCallerFirst(w, ev) ==
  IF Nullish(ev) THEN w ELSE
  LET type == Get(ev, KeyType)
      c == Get(ev, KeyContent)
      tool == Get(ev, KeyToolName)
      u == Get(ev, KeyUsage)
      w1 == CallerOnChunk(w, ev)
  IN  IF w.q.obs.kind = "throws" /\ w.q.obs.at = Len(w.del) + 1 THEN w1
      ELSE [w1 EXCEPT
              !.q.content = IF type = JStr(TypeContent) /\ Truthy(c) THEN @ \o ToText(c) ELSE @,
              !.q.toolsUsed = IF type = JStr(TypeToolStart) /\ Truthy(tool) THEN SetAdd(@, tool) ELSE @,
              !.q.usage = IF type = JStr(TypeDone) /\ Truthy(u) THEN u ELSE @]

\* The observer runStream hands to postSse: fold the event, then the caller;
\* on null, chunk.type throws before either.
AgentOnChunk(w, ev) ==
  IF Nullish(ev) THEN w ELSE
  LET type == Get(ev, KeyType)
      c == Get(ev, KeyContent)
      tool == Get(ev, KeyToolName)
      u == Get(ev, KeyUsage)
      q1 == [w.q EXCEPT
               !.content = IF type = JStr(TypeContent) /\ Truthy(c) THEN @ \o ToText(c) ELSE @,
               !.toolsUsed = IF type = JStr(TypeToolStart) /\ Truthy(tool) THEN SetAdd(@, tool) ELSE @,
               !.usage = IF type = JStr(TypeDone) /\ Truthy(u) THEN u ELSE @]
  IN  CallerOnChunk([w EXCEPT !.q = q1], ev)

\* The observer chatStream hands to postSse: the caller's, if any.
ChatOnChunk(w, ev) == CallerOnChunk(w, ev)

\* The observer subscribeSse hands to consumeSseResponse: the caller's.
SubscribeOnChunk(w, ev) == CallerOnChunk(w, ev)

\* The onChunk argument of consumeSseResponse.
OnChunk(w, ev) ==
  CASE w.q.api = "chat" -> ChatOnChunk(w, ev)
    [] w.q.api = "subscribe" -> SubscribeOnChunk(w, ev)
    [] OTHER -> AgentOnChunk(w, ev)

\* Mutant of EmitBlock: the observer is called before the push, inside the
\* try; the event on which it throws is not pushed.
EmitBlockCallFirst(w, block) ==
  LET evs == DecodeBlock(block)
  IN  IF evs = <<>> THEN w
      ELSE IF w.q.obs.kind = "throws" /\ w.q.obs.at = Len(w.del) + 1
             THEN OnChunk(w, evs[1])
             ELSE OnChunk([w EXCEPT !.q.chunks = Append(@, evs[1])], evs[1])

\* emitBlock(block): decode, push on chunks, call the observer; what the
\* observer throws is caught and logged.
EmitBlock(w, block) ==
  LET evs == DecodeBlock(block)
  IN  IF evs = <<>> THEN w
      ELSE OnChunk([w EXCEPT !.q.chunks = Append(@, evs[1])], evs[1])

\* while ((splitIndex = buffer.indexOf('\n\n')) !== -1) { ... emitBlock(block) }
RECURSIVE CutBlocks(_)
CutBlocks(w) ==
  LET i == IndexOfDelim(w.q.buffer)
  IN  IF i = 0 THEN w
      ELSE CutBlocks(EmitBlock([w EXCEPT !.q.buffer = SubSeq(@, i + 2, Len(@))],
                               Trim(SubSeq(w.q.buffer, 1, i - 1))))

\* One turn of the read loop on the chunk `value`.
OnRead(w, value) ==
  LET d == DecodeStream(value, w.q.pend)
      t == ReplaceCRLF(d.out)
  IN  CutBlocks([w EXCEPT !.q.pend = d.pend, !.q.buffer = @ \o t, !.h.text = @ \o t])

\* Mutant of OnDone: the trailing block is not emitted.
OnDoneNoFlush(w) ==
  LET t == ReplaceCRLF(DecodeFlush(w.q.pend))
  IN  [w EXCEPT !.q.pend = FALSE, !.q.buffer = @ \o t, !.h.text = @ \o t]

\* After the loop: the decoder's flush and the trailing block.
OnDone(w) ==
  LET t == ReplaceCRLF(DecodeFlush(w.q.pend))
      w1 == [w EXCEPT !.q.pend = FALSE, !.q.buffer = @ \o t, !.h.text = @ \o t]
  IN  EmitBlock(w1, Trim(w1.q.buffer))

\* The state a handler of request r starts from; `where` is r's place for
\* the history of aborts.
World(r, where) ==
  [reg |-> activeAgentRequests, sig |-> signal, notes |-> notes,
   hit |-> [x \in Req |-> hist[x].hit],
   pcs |-> [x \in Req |-> IF x = r THEN where ELSE rq[x].pc],
   q |-> rq[r], del |-> delivered[r], h |-> hist[r]]

\* The state a handler of request r leaves.
Commit(r, w) ==
  /\ activeAgentRequests' = w.reg
  /\ signal' = w.sig
  /\ notes' = w.notes
  /\ rq' = [rq EXCEPT ![r] = w.q]
  /\ delivered' = [delivered EXCEPT ![r] = w.del]
  /\ hist' = Removals(activeAgentRequests, w.reg,
                      [x \in Req |-> [(IF x = r THEN w.h ELSE hist[x]) EXCEPT !.hit = w.hit[x]]])

\* ------------------------------------------------------------ inputs

\* The observers and the response bodies of the registry specification.
ObserversSmall == {Observer("quiet", 0)}

BodiesSmall == {DataPrefix \o <<JC>>}

\* The observers and the response bodies of the framing specification: every
\* concatenation of at most MaxPieces pieces.
ObserversAll ==
  {Observer("none", 0), Observer("quiet", 0), Observer("throws", 1),
   Observer("aborts", 1), Observer("aborts", 2)}

Pieces ==
  { DataPrefix \o <<JC, CR, LF, CR, LF>>,
    DataPrefix \o <<SP, JT, LF, LF>>,
    DataPrefix \o <<LeadByte, ContByte, LF>>,
    DataPrefix \o <<JD>>,
    <<CR, LF>>,
    <<LeadByte>> }

RECURSIVE Concat(_)
Concat(ps) == IF ps = <<>> THEN <<>> ELSE Head(ps) \o Concat(Tail(ps))

BodiesAll == {Concat(ps) : ps \in UNION {[1..n -> Pieces] : n \in 0..MaxPieces}}

\* The observers and the response bodies of the aggregation specification:
\* every sequence of at most MaxEvents records, each a data line and a blank
\* line; the payloads are the JSON atoms and the text h, which is not JSON.
ObserversChat == {Observer("none", 0), Observer("quiet", 0), Observer("throws", 1)}

Payloads == JsonAtoms \cup {"h"}

Records == {DataPrefix \o <<x, LF, LF>> : x \in Payloads}

BodiesAggregate == {Concat(rs) : rs \in UNION {[1..n -> Records] : n \in 0..MaxEvents}}

\* The response bodies of the subscription specification: every sequence of
\* at most MaxEvents records, each some lines and a blank line.  The lines
\* are data lines with a JSON payload, with a payload behind two spaces,
\* with an empty payload, and lines of other fields.
EventField == <<"e", "v", "e", "n", "t", ":">>

LineRecords ==
  { DataPrefix \o <<JC, LF, LF>>,
    DataPrefix \o <<SP, SP, "h", LF, LF>>,
    DataPrefix \o <<"h", LF>> \o DataPrefix \o <<"h", LF, LF>>,
    <<":", "k", LF, LF>>,
    EventField \o <<"x", LF>> \o DataPrefix \o <<JG, LF, LF>>,
    DataPrefix \o <<LF, LF>>,
    DataPrefix \o <<LF>> \o DataPrefix \o <<LF, LF>>,
    DataPrefix \o <<JK, LF, LF>>,
    DataPrefix \o <<SP, JT, LF, LF>>,
    EventField \o <<"x", LF, LF>> }

BodiesSubscribe == {Concat(rs) : rs \in UNION {[1..n -> LineRecords] : n \in 0..MaxEvents}}

\* The server flushes record by record: the length of the next chunk.
RecordCut(net) == IF IndexOfDelim(net) = 0 THEN Len(net) ELSE IndexOfDelim(net) + 1

\* ------------------------------------------------------------ errors

AbortError == [kind |-> "throw", name |-> "AbortError", message |-> "The user aborted a request."]

HttpError == [kind |-> "throw", name |-> "Error", message |-> "HTTP 500: Internal Server Error"]

NetworkError == [kind |-> "throw", name |-> "TypeError", message |-> "Failed to fetch"]

Returned == [kind |-> "return", name |-> "", message |-> ""]

\* What reading a property of null throws.
NullTypeError ==
  [kind |-> "throw", name |-> "TypeError", message |-> "Cannot read properties of null"]

\* ------------------------------------------------------------ actions

\* Date.now() advances.
Tick ==
  /\ clock < MaxClock
  /\ clock' = clock + 1
  /\ UNCHANGED <<activeAgentRequests, notes, abortSettled, rq, signal, delivered, hist, poller>>

\* agentApi.runStream(..., onChunk, ...) up to its return: the id, the
\* controller, the registry entry, and the fetch of postSse issued.
RunStream(r, obs, rnd) ==
  /\ rq[r].pc = "idle"
  /\ LET requestId == randomId(clock, rnd)
         reg == MapSet(activeAgentRequests, requestId, r)
     IN  /\ activeAgentRequests' = reg
         /\ rq' = [rq EXCEPT ![r] = [IdleReq EXCEPT !.pc = "fetch", !.id = requestId, !.obs = obs]]
         /\ signal' = [signal EXCEPT ![r] = FALSE]
         /\ hist' = Removals(activeAgentRequests, reg, hist)
  /\ UNCHANGED <<clock, notes, abortSettled, delivered, poller>>

\* llmApi.chatStream(messages, options, onChunk) up to its first await: the
\* fetch of postSse issued without a signal; no id, no registry entry.
ChatStream(r, obs) ==
  /\ rq[r].pc = "idle"
  /\ rq' = [rq EXCEPT ![r] = [IdleReq EXCEPT !.pc = "fetch", !.api = "chat", !.obs = obs]]
  /\ UNCHANGED <<clock, activeAgentRequests, notes, abortSettled, signal, delivered, hist, poller>>

\* subscribeSse(path, onChunk) up to its return of the stop function: the
\* controller, and the fetch issued with its signal; no id, no registry entry.
SubscribeSse(r, obs) ==
  /\ rq[r].pc = "idle"
  /\ rq' = [rq EXCEPT ![r] = [IdleReq EXCEPT !.pc = "fetch", !.api = "subscribe", !.obs = obs]]
  /\ signal' = [signal EXCEPT ![r] = FALSE]
  /\ UNCHANGED <<clock, activeAgentRequests, notes, abortSettled, delivered, hist, poller>>

\* The stop function subscribeSse returned: controller.abort().  The history
\* keeps where the subscription stood at the first call.
Stop(r) ==
  /\ rq[r].api = "subscribe"
  /\ rq[r].pc # "idle"
  /\ signal' = [signal EXCEPT ![r] = TRUE]
  /\ hist' = [hist EXCEPT ![r].hit = IF @ = "none" THEN rq[r].pc ELSE @]
  /\ UNCHANGED <<clock, activeAgentRequests, notes, abortSettled, rq, delivered, poller>>

\* The postSse promise settles with `outcome` and runStream resumes later:
\* the frames of postSse and consumeSseResponse are gone, the returned
\* chunks and the closure's content, toolsUsed and usage stay.
Unwind(q, outcome) ==
  [q EXCEPT !.pc = "resuming", !.outcome = outcome, !.net = <<>>, !.pend = FALSE,
            !.buffer = <<>>, !.chunks = IF outcome.kind = "return" THEN @ ELSE <<>>]

\* fetch resolves with a response: not OK (consumeSseResponse throws), without
\* a readable body (it returns []), or OK (the first reader.read() is issued).
FetchResolve(r, kind, bodies) ==
  /\ rq[r].pc = "fetch"
  /\ ~signal[r]
  /\ \E body \in (IF kind = "ok" THEN bodies ELSE {<<>>}) :
       /\ rq' = [rq EXCEPT ![r] =
                   CASE kind = "notOk" -> Unwind(@, HttpError)
                     [] kind = "noBody" -> Unwind(@, Returned)
                     [] kind = "ok" -> [@ EXCEPT !.pc = "read", !.net = body]]
       /\ hist' = [hist EXCEPT ![r].wire = body]
  /\ UNCHANGED <<clock, activeAgentRequests, notes, abortSettled, signal, delivered, poller>>

\* fetch rejects: with an AbortError once the signal is aborted, else with a
\* network failure.
FetchReject(r) ==
  /\ rq[r].pc = "fetch"
  /\ rq' = [rq EXCEPT ![r] = Unwind(@, IF signal[r] THEN AbortError ELSE NetworkError)]
  /\ UNCHANGED <<clock, activeAgentRequests, notes, abortSettled, signal, delivered, hist, poller>>

\* Mutant of ReadChunk: the signal is not given to fetch; a read resolves
\* after the abort.
ReadChunkUnsignalled(r, k) ==
  /\ rq[r].pc = "read"
  /\ k \in 1..Len(rq[r].net)
  /\ LET w == World(r, "deliver")
         w1 == [w EXCEPT !.q.net = SubSeq(@, k + 1, Len(@))]
     IN  Commit(r, OnRead(w1, SubSeq(rq[r].net, 1, k)))
  /\ UNCHANGED <<clock, abortSettled, poller>>

\* reader.read() resolves with the next k bytes of the body.
ReadChunk(r, k) ==
  /\ rq[r].pc = "read"
  /\ ~signal[r]
  /\ k \in 1..Len(rq[r].net)
  /\ LET w == World(r, "deliver")
         w1 == [w EXCEPT !.q.net = SubSeq(@, k + 1, Len(@))]
     IN  Commit(r, OnRead(w1, SubSeq(rq[r].net, 1, k)))
  /\ UNCHANGED <<clock, abortSettled, poller>>

\* reader.read() resolves with done: the trailing block, then return chunks.
ReadDone(r) ==
  /\ rq[r].pc = "read"
  /\ ~signal[r]
  /\ rq[r].net = <<>>
  /\ LET w == OnDone(World(r, "flush"))
     IN  Commit(r, [w EXCEPT !.q = Unwind(@, Returned)])
  /\ UNCHANGED <<clock, abortSettled, poller>>

\* reader.read() rejects: with an AbortError once the signal is aborted, else
\* with a network failure; the buffer is dropped with the frame.
ReadReject(r) ==
  /\ rq[r].pc = "read"
  /\ rq' = [rq EXCEPT ![r] = Unwind(@, IF signal[r] THEN AbortError ELSE NetworkError)]
  /\ hist' = [hist EXCEPT ![r] = [NoHist EXCEPT !.hit = hist[r].hit,
                                              !.removals = hist[r].removals,
                                              !.lost = DecodeBlock(Trim(rq[r].buffer))]]
  /\ UNCHANGED <<clock, activeAgentRequests, notes, abortSettled, signal, delivered, poller>>

\* for (const chunk of chunks) { if tool_start ... toolsUsed.add(chunk.toolName) }
RECURSIVE Rescan(_, _)
Rescan(chunks, tools) ==
  IF chunks = <<>> THEN tools
  ELSE Rescan(Tail(chunks),
              IF Get(Head(chunks), KeyType) = JStr(TypeToolStart)
                 /\ Truthy(Get(Head(chunks), KeyToolName))
                THEN SetAdd(tools, Get(Head(chunks), KeyToolName))
                ELSE tools)

\* How the try block of an aggregator ends: as postSse ended, or, once
\* postSse has returned, with the TypeError of chunk.type or chunk.content
\* on a null chunk.
TryOutcome(q) ==
  IF q.outcome.kind = "return" /\ \E i \in DOMAIN q.chunks : Nullish(q.chunks[i])
    THEN NullTypeError
    ELSE q.outcome

\* Mutant of AgentResult: an AbortError is reported like any other error.
AgentResultUnclassified(q) ==
  IF TryOutcome(q).kind = "return"
    THEN LET tools == Rescan(q.chunks, q.toolsUsed)
         IN  [settled |-> TRUE, success |-> TRUE, error |-> "", content |-> q.content,
              toolsUsed |-> tools, toolRounds |-> Len(tools), totalUsage |-> q.usage]
    ELSE [NoResult EXCEPT !.settled = TRUE, !.error = TryOutcome(q).message]

\* What the async body of runStream returns, from the outcome of postSse.
AgentResult(q) ==
  IF TryOutcome(q).kind = "return"
    THEN LET tools == Rescan(q.chunks, q.toolsUsed)
         IN  [settled |-> TRUE, success |-> TRUE, error |-> "", content |-> q.content,
              toolsUsed |-> tools, toolRounds |-> Len(tools), totalUsage |-> q.usage]
    ELSE [NoResult EXCEPT !.settled = TRUE,
                          !.error = IF TryOutcome(q).name = "AbortError" THEN "aborted"
                                    ELSE TryOutcome(q).message]

\* chunks.map((chunk) => chunk.content || '').join('')
RECURSIVE JoinContent(_)
JoinContent(chunks) ==
  IF chunks = <<>> THEN <<>>
  ELSE (IF Truthy(Get(Head(chunks), KeyContent)) THEN ToText(Get(Head(chunks), KeyContent))
        ELSE <<>>) \o JoinContent(Tail(chunks))

\* Mutant of ChatResult: no catch clause; what postSse throws rejects the
\* promise of chatStream, which then has no result.
ChatResultNoCatch(q) ==
  IF TryOutcome(q).kind = "return"
    THEN [NoResult EXCEPT !.settled = TRUE, !.success = TRUE, !.content = JoinContent(q.chunks)]
    ELSE NoResult

\* What chatStream returns, from the outcome of postSse.
ChatResult(q) ==
  IF TryOutcome(q).kind = "return"
    THEN [NoResult EXCEPT !.settled = TRUE, !.success = TRUE, !.content = JoinContent(q.chunks)]
    ELSE [NoResult EXCEPT !.settled = TRUE, !.error = TryOutcome(q).message]

\* Mutant of SubscribeResult: the catch of subscribeSse logs every error.
SubscribeResultLogsAll(q) ==
  [NoResult EXCEPT !.settled = TRUE, !.success = (q.outcome.kind = "return"),
                   !.error = IF q.outcome.kind = "throw" THEN q.outcome.message ELSE ""]

\* How the async body of subscribeSse ends; it returns nothing: success says
\* that consumeSseResponse returned, error is what console.error logged.
SubscribeResult(q) ==
  [NoResult EXCEPT !.settled = TRUE, !.success = (q.outcome.kind = "return"),
                   !.error = IF q.outcome.kind = "throw" /\ q.outcome.name # "AbortError"
                               THEN q.outcome.message ELSE ""]

\* Mutant of Cleanup: no finally block.
CleanupSkipped(reg, id) == reg

\* finally { activeAgentRequests.delete(requestId) }
Cleanup(reg, id) == MapDelete(reg, id)

\* runStream resumes after postSse: the result, and the cleanup; of the
\* request the settled promise alone is left.
Settle(r) ==
  /\ rq[r].pc = "resuming"
  /\ rq' = [rq EXCEPT ![r] = [IdleReq EXCEPT !.pc = "settled", !.api = rq[r].api,
                                           !.result = CASE rq[r].api = "chat" -> ChatResult(rq[r])
                                                        [] rq[r].api = "subscribe" -> SubscribeResult(rq[r])
                                                        [] OTHER -> AgentResult(rq[r])]]
  /\ activeAgentRequests' = IF rq[r].api = "agent" THEN Cleanup(activeAgentRequests, rq[r].id)
                            ELSE activeAgentRequests
  /\ hist' = Removals(activeAgentRequests, activeAgentRequests', hist)
  /\ UNCHANGED <<clock, notes, abortSettled, signal, delivered, poller>>

\* agentApi.abort(id), called from outside an observer, up to the fetch of
\* its notification.
Abort(id) ==
  /\ notes < MaxPending
  /\ LET w == AbortSync([reg |-> activeAgentRequests, sig |-> signal, notes |-> notes,
                         hit |-> [x \in Req |-> hist[x].hit],
                         pcs |-> [x \in Req |-> rq[x].pc]], id)
     IN  /\ activeAgentRequests' = w.reg
         /\ signal' = w.sig
         /\ notes' = w.notes
         /\ hist' = Removals(activeAgentRequests, w.reg,
                             [x \in Req |-> [hist[x] EXCEPT !.hit = w.hit[x]]])
  /\ UNCHANGED <<clock, abortSettled, rq, delivered, poller>>

\* httpRequest: how the promise settles for each way the request can end.
HttpRequest(resp) == IF resp = "ok" THEN "resolved" ELSE "rejected"

\* The notification of an abort call ends, and `return httpRequest(...)`
\* settles the promise of agentApi.abort.
AbortReturn(resp) ==
  /\ notes > 0
  /\ notes' = notes - 1
  /\ abortSettled' = HttpRequest(resp)
  /\ UNCHANGED <<clock, activeAgentRequests, rq, signal, delivered, hist, poller>>

Responses == {"ok", "notOk", "notJson", "networkError"}

\* ------------------------------------------------------------ import progress

\* toNumber(value, fallback) on the values the model's snapshots hold:
\* numbers, null and undefined.
toNumber(value, fallback) ==
  CASE value.t = "num" -> value.n
    [] value.t = "null" -> 0
    [] OTHER -> fallback

\* normalizeImportProgressStatus(status)
normalizeImportProgressStatus(status) ==
  LET s == IF Truthy(status) THEN ToLowerCase(ToText(status)) ELSE <<>>
  IN
       CASE s = <<"d", "e", "t", "e", "c", "t", "i", "n", "g">> -> "detecting"
         [] s = <<"r", "e", "a", "d", "i", "n", "g">> -> "reading"
         [] s = <<"p", "a", "r", "s", "i", "n", "g">> -> "parsing"
         [] s = <<"s", "a", "v", "i", "n", "g">> -> "saving"
         [] s \in {<<"c", "o", "m", "p", "l", "e", "t", "e", "d">>, <<"d", "o", "n", "e">>,
                   <<"s", "u", "c", "c", "e", "s", "s">>, <<"i", "d", "l", "e">>} -> "done"
         [] s \in {<<"f", "a", "i", "l", "e", "d">>, <<"e", "r", "r", "o", "r">>} -> "error"
         [] OTHER -> "reading"

\* Math.round((processed / total) * 100) for total > 0 and processed >= 0.
RoundPercent(processed, total) == (200 * processed + total) \div (2 * total)

\* normalizeImportProgressSnapshot(snapshot)
normalizeImportProgressSnapshot(snapshot) ==
  LET item == toCamelDeep(IF Truthy(snapshot) THEN snapshot ELSE JObj(<<>>))
      total == toNumber(Get(item, KeyTotal), 0)
      processed == toNumber(Get(item, KeyProcessed), 0)
      stage == normalizeImportProgressStatus(Get(item, KeyStatus))
      percent == RoundPercent(processed, total)
      progress == IF total > 0
                    THEN (IF percent > 100 THEN 100 ELSE IF percent < 0 THEN 0 ELSE percent)
                    ELSE (IF stage = "done" THEN 100 ELSE 0)
      message == IF Truthy(Get(item, KeyError)) THEN Get(item, KeyError)
                 ELSE IF Truthy(Get(item, KeyCurrentFile)) THEN Get(item, KeyCurrentFile)
                 ELSE JStr(<<>>)
  IN  [stage |-> stage, progress |-> progress, message |-> message,
       total |-> total, processed |-> processed]

\* lines.filter(startsWith('data:')).map(slice(5).trim())
RECURSIVE TrimmedDataLines(_)
TrimmedDataLines(lines) ==
  IF lines = <<>> THEN <<>>
  ELSE IF StartsWith(Head(lines), DataPrefix)
         THEN <<Trim(SubSeq(Head(lines), Len(DataPrefix) + 1, Len(Head(lines))))>>
              \o TrimmedDataLines(Tail(lines))
         ELSE TrimmedDataLines(Tail(lines))

\* readImportProgressSnapshot() from the text of an OK response: the parsed
\* data line, or null.
readImportProgressSnapshot(text) ==
  LET dataLine == JoinLines(TrimmedDataLines(SplitLines(text)))
  IN  IF dataLine = <<>> THEN JNull
      ELSE IF JsonParse(dataLine).ok THEN JsonParse(dataLine).value ELSE JNull

\* The texts of the OK responses of GET /api/chat/import-progress.
ProgressTexts ==
  { DataPrefix \o <<SP, JP1, LF, LF>>,
    DataPrefix \o <<SP, JP2, LF, LF>>,
    DataPrefix \o <<JP3, LF, LF>>,
    DataPrefix \o <<JP4>>,
    DataPrefix \o <<SP, JP5, LF, LF>>,
    DataPrefix \o <<JN, LF, LF>>,
    DataPrefix \o <<"h", LF, LF>>,
    <<":", "k", LF, LF>> }

\* What the caller's callback does with a snapshot.
Callbacks == {"returns", "throws"}

Terminal(normalized) == normalized.stage \in {"done", "error"}

\* chatApi.onImportProgress(callback) up to its return of the stop function:
\* poll() runs to its await, the first request is out.
OnImportProgress(callback) ==
  /\ poller.pc = "off"
  /\ poller' = [NoPoller EXCEPT !.pc = "request", !.callback = callback,
                                !.active = TRUE, !.polls = 1]
  /\ UNCHANGED <<clock, activeAgentRequests, notes, abortSettled, rq, signal, delivered, hist>>

\* The request of a poll is answered OK with `text`: the callback gets the
\* normalized snapshot; poll returns if the callback returned and the stage
\* is done or error, else (the stage is another, or the callback threw into
\* the catch) it sets the time-out of the next poll.
PollResolve(text) ==
  /\ poller.pc = "request"
  /\ LET snapshot == readImportProgressSnapshot(text)
         normalized == normalizeImportProgressSnapshot(
                         IF Truthy(snapshot) THEN snapshot ELSE JObj(<<>>))
         returns == poller.callback = "returns" /\ Terminal(normalized)
     IN  poller' = [poller EXCEPT !.got = Append(@, normalized),
                                  !.pc = IF returns THEN "over" ELSE "timer",
                                  !.timer = IF returns THEN @ ELSE TRUE]
  /\ UNCHANGED <<clock, activeAgentRequests, notes, abortSettled, rq, signal, delivered, hist>>

\* The request of a poll fails (fetch rejects, or the response is not OK):
\* the catch ignores it and the time-out of the next poll is set.
PollReject ==
  /\ poller.pc = "request"
  /\ poller' = [poller EXCEPT !.pc = "timer", !.timer = TRUE]
  /\ UNCHANGED <<clock, activeAgentRequests, notes, abortSettled, rq, signal, delivered, hist>>

\* Mutant of PollTimer: poll does not look at `active`.
PollTimerUnchecked ==
  /\ poller.pc = "timer"
  /\ poller.polls < MaxPolls
  /\ poller' = [poller EXCEPT !.pc = "request", !.polls = @ + 1]
  /\ UNCHANGED <<clock, activeAgentRequests, notes, abortSettled, rq, signal, delivered, hist>>

\* The time-out calls poll(): it returns if the subscription is not active,
\* else the next request is out.
PollTimer ==
  /\ poller.pc = "timer"
  /\ poller.active => poller.polls < MaxPolls
  /\ poller' = IF poller.active
                 THEN [poller EXCEPT !.pc = "request", !.polls = @ + 1]
                 ELSE [poller EXCEPT !.pc = "over"]
  /\ UNCHANGED <<clock, activeAgentRequests, notes, abortSettled, rq, signal, delivered, hist>>

\* The stop function onImportProgress returned: active = false, and the
\* time-out is cleared, which unsets one that is pending.
StopPolling ==
  /\ poller.pc # "off"
  /\ poller' = [poller EXCEPT
                  !.active = FALSE,
                  !.pc = IF poller.timer /\ @ = "timer" THEN "over" ELSE @,
                  !.stopAt = IF @ = NoStop
                               THEN [polls |-> poller.polls, calls |-> Len(poller.got),
                                     pc |-> poller.pc]
                               ELSE @]
  /\ UNCHANGED <<clock, activeAgentRequests, notes, abortSettled, rq, signal, delivered, hist>>

\* The registry specification: two requests, each body arriving in one chunk.
Next ==
  \/ Tick
  \/ \E r \in Req, obs \in ObserversSmall, rnd \in 1..MaxRand : RunStream(r, obs, rnd)
  \/ \E r \in Req, kind \in {"ok", "notOk", "noBody"} : FetchResolve(r, kind, BodiesSmall)
  \/ \E r \in Req : FetchReject(r)
  \/ \E r \in Req : ReadChunk(r, Len(rq[r].net))
  \/ \E r \in Req : ReadDone(r)
  \/ \E r \in Req : ReadReject(r)
  \/ \E r \in Req : Settle(r)
  \/ \E id \in Ids : Abort(id)
  \/ \E resp \in Responses : AbortReturn(resp)

Spec == Init /\ [][Next]_vars

\* The framing specification: one request, every body of BodiesAll cut into
\* chunks in every way, every observer of ObserversAll; the one abort call
\* is the observer's.
NextFramer ==
  \/ \E obs \in ObserversAll : RunStream("r1", obs, 1)
  \/ \E kind \in {"ok", "notOk", "noBody"} : FetchResolve("r1", kind, BodiesAll)
  \/ FetchReject("r1")
  \/ \E k \in 1..Len(rq["r1"].net) : ReadChunk("r1", k)
  \/ ReadDone("r1")
  \/ ReadReject("r1")
  \/ Settle("r1")
  \/ \E resp \in Responses : AbortReturn(resp)

SpecFramer == Init /\ [][NextFramer]_vars

\* The aggregation specification: one request, made by runStream or by
\* chatStream, every body of BodiesAggregate arriving record by record, and
\* one abort call of the id runStream issues, at any time.
NextAggregate ==
  \/ \E obs \in ObserversAll : RunStream("r1", obs, 1)
  \/ \E obs \in ObserversChat : ChatStream("r1", obs)
  \/ \E kind \in {"ok", "notOk", "noBody"} : FetchResolve("r1", kind, BodiesAggregate)
  \/ FetchReject("r1")
  \/ ReadChunk("r1", RecordCut(rq["r1"].net))
  \/ ReadDone("r1")
  \/ ReadReject("r1")
  \/ Settle("r1")
  \/ Abort(randomId(0, 1))

SpecAggregate == Init /\ [][NextAggregate]_vars

\* The subscription specification: one subscription by subscribeSse, every
\* body of BodiesSubscribe arriving record by record, and the stop function
\* called at any time, any number of times.
NextSubscribe ==
  \/ \E obs \in ObserversChat : SubscribeSse("r1", obs)
  \/ \E kind \in {"ok", "notOk", "noBody"} : FetchResolve("r1", kind, BodiesSubscribe)
  \/ FetchReject("r1")
  \/ ReadChunk("r1", RecordCut(rq["r1"].net))
  \/ ReadDone("r1")
  \/ ReadReject("r1")
  \/ Settle("r1")
  \/ Stop("r1")

SpecSubscribe == Init /\ [][NextSubscribe]_vars

\* The polling specification: one subscription by chatApi.onImportProgress,
\* every answer to every poll, the stop function called at any time; a
\* time-out that is set and not cleared fires.
NextPoller ==
  \/ \E callback \in Callbacks : OnImportProgress(callback)
  \/ \E text \in ProgressTexts : PollResolve(text)
  \/ PollReject
  \/ PollTimer
  \/ StopPolling

SpecPoller == Init /\ [][NextPoller]_vars /\ WF_vars(PollTimer)

\* ------------------------------------------------------------ claims

InFlight(r) == rq[r].pc \notin {"idle", "settled"}

Settled(r) == rq[r].pc = "settled"

\* consumeSseResponse has returned its chunks and runStream has not resumed.
ReturnedChunks(r) == rq[r].pc = "resuming" /\ rq[r].outcome.kind = "return"

\* C1: an abort call that finds the entry of a request, wherever the request
\* stands, makes its result settle as {success: false, error: "aborted"}.
C1_AbortSettlesAborted ==
  \A r \in Req :
    (Settled(r) /\ hist[r].hit # "none")
      => (~rq[r].result.success /\ rq[r].result.error = "aborted")

\* C2: the entry of a request is there from its start until it is removed,
\* it is removed exactly once, and a settled request has no entry.
C2_EntryRemovedOnce ==
  \A r \in Req :
    /\ hist[r].removals <= 1
    /\ rq[r].pc = "idle" => (~Registered(activeAgentRequests, r) /\ hist[r].removals = 0)
    /\ rq[r].pc # "idle" => (Registered(activeAgentRequests, r) <=> hist[r].removals = 0)
    /\ Settled(r) => (~Registered(activeAgentRequests, r) /\ hist[r].removals = 1)

\* One request settled as aborted and one as a success, each entry removed
\* once, the registry empty.
C2_Witness ==
  /\ Settled("r1") /\ rq["r1"].result.error = "aborted" /\ hist["r1"].removals = 1
  /\ Settled("r2") /\ rq["r2"].result.success /\ hist["r2"].removals = 1
  /\ activeAgentRequests = EmptyMap

\* The events of the body `wire` when it arrives as one chunk.
OneChunk(wire) ==
  LET w0 == [reg |-> EmptyMap, sig |-> [x \in Req |-> FALSE], notes |-> 0,
             hit |-> [x \in Req |-> "none"], pcs |-> [x \in Req |-> "read"],
             q |-> IdleReq, del |-> <<>>, h |-> NoHist]
  IN  OnDone(IF wire = <<>> THEN w0 ELSE OnRead(w0, wire)).q.chunks

\* C3: however the body is cut into chunks, the read loop yields the events
\* it yields when the whole body arrives as one chunk.
C3_ChunkInvariance ==
  \A r \in Req : ReturnedChunks(r) => rq[r].chunks = OneChunk(hist[r].wire)

\* C4: requests in flight have pairwise distinct ids, and the id of one that
\* no abort call has found maps to its own controller.
C4_DistinctIds ==
  \A r \in Req :
    InFlight(r) =>
      /\ \A o \in Req \ {r} : InFlight(o) => rq[o].id # rq[r].id
      /\ hist[r].hit = "none" => Registered(activeAgentRequests, r)

\* The step that starts a request leaves its id in the registry, mapped to
\* the request's own controller.
C5_Inserted ==
  \A r \in Req :
    (rq[r].pc = "idle" /\ rq'[r].pc # "idle")
      => (rq'[r].id \in DOMAIN activeAgentRequests' /\ activeAgentRequests'[rq'[r].id] = r)

\* A request whose entry an abort call found while its fetch was pending.
C5_AbortedEarly ==
  \A r \in Req :
    hist[r].hit = "fetch"
      => /\ rq[r].pc \in {"fetch", "resuming", "settled"}
         /\ delivered[r] = <<>>
         /\ rq[r].chunks = <<>>
         /\ rq[r].pc = "resuming" => rq[r].outcome = AbortError
         /\ Settled(r) => (~rq[r].result.success /\ rq[r].result.error = "aborted")

\* C5: runStream returns with its entry in the registry, and a request whose
\* entry an abort call found before the response arrived never reads a chunk,
\* never delivers an event and settles as aborted.
C5_StartAbortRace == [][C5_Inserted]_vars /\ []C5_AbortedEarly

\* A request aborted while its fetch was pending has settled as aborted.
C5_Witness ==
  \E r \in Req : Settled(r) /\ hist[r].hit = "fetch" /\ rq[r].result.error = "aborted"

\* C6: no abort call rejects.
C6_AbortNeverRejects == abortSettled # "rejected"

\* An abort call whose id is not in the registry changes nothing but the
\* notifications in flight.
C7_UnknownAbort ==
  \A id \in Ids :
    (id \notin DOMAIN activeAgentRequests /\ Abort(id))
      => UNCHANGED <<activeAgentRequests, signal, rq, delivered>>

\* A result that has settled is the same after every step.
C7_SettledStays ==
  \A r \in Req : rq[r].result.settled => rq'[r].result = rq[r].result

\* C7: an abort call with an id that is not in the registry leaves the
\* registry, every signal, every request and every delivery as they are, and
\* a settled result never changes.
C7_UnknownAbortInert == [][C7_UnknownAbort /\ C7_SettledStays]_vars

\* An abort notification is in flight, no signal is set, and a request has
\* settled as a success: the abort call named an id that was not registered.
C7_Witness ==
  /\ notes > 0
  /\ \A r \in Req : ~signal[r]
  /\ \E r \in Req : Settled(r) /\ rq[r].result.success

\* The blocks a text holds up to its last delimiter, each trimmed, found by
\* position; and the text after the last delimiter.
RECURSIVE CompleteBlocks(_, _)
CompleteBlocks(text, from) ==
  LET hits == {i \in from..(Len(text) - 1) : text[i] = LF /\ text[i + 1] = LF}
  IN  IF hits = {} THEN <<>>
      ELSE LET i == CHOOSE k \in hits : \A j \in hits : k <= j
           IN  <<Trim(SubSeq(text, from, i - 1))>> \o CompleteBlocks(text, i + 2)

RECURSIVE Remainder(_, _)
Remainder(text, from) ==
  LET hits == {i \in from..(Len(text) - 1) : text[i] = LF /\ text[i + 1] = LF}
  IN  IF hits = {} THEN SubSeq(text, from, Len(text))
      ELSE Remainder(text, (CHOOSE k \in hits : \A j \in hits : k <= j) + 2)

RECURSIVE EventsOf(_)
EventsOf(blocks) ==
  IF blocks = <<>> THEN <<>> ELSE DecodeBlock(Head(blocks)) \o EventsOf(Tail(blocks))

\* C8: while the read loop runs and when it has returned, the caller's
\* observer has been invoked with exactly the events decoded so far, once
\* each and in the order of their records in the text received.
C8_OrderedDelivery ==
  \A r \in Req :
    (rq[r].pc = "read" \/ ReturnedChunks(r))
      => /\ rq[r].obs.kind # "none" => delivered[r] = rq[r].chunks
         /\ rq[r].obs.kind = "none" => delivered[r] = <<>>
         /\ rq[r].pc = "read" => rq[r].chunks = EventsOf(CompleteBlocks(hist[r].text, 1))
         /\ ReturnedChunks(r) =>
              \E n \in {Len(rq[r].chunks), Len(rq[r].chunks) - 1} :
                n >= 0 /\ SubSeq(rq[r].chunks, 1, n) = EventsOf(CompleteBlocks(hist[r].text, 1))

\* Two different events delivered while part of the body is still to come.
C8_Witness ==
  /\ rq["r1"].pc = "read"
  /\ rq["r1"].obs.kind = "quiet"
  /\ Len(delivered["r1"]) = 2
  /\ delivered["r1"][1] # delivered["r1"][2]
  /\ Len(hist["r1"].text) < Len(hist["r1"].wire)

\* C9: when the read loop has ended on end-of-stream, the event list is the
\* events of the complete blocks followed by the event of the trimmed
\* remainder, if it decodes to one, and the observer has got them all.
C9_TrailingFlush ==
  \A r \in Req :
    ReturnedChunks(r)
      => /\ rq[r].chunks = EventsOf(CompleteBlocks(hist[r].text, 1))
                             \o DecodeBlock(Trim(Remainder(hist[r].text, 1)))
         /\ rq[r].obs.kind # "none" => delivered[r] = rq[r].chunks

\* The stream ended on a remainder that decodes to an event, delivered last.
C9_Witness ==
  /\ ReturnedChunks("r1")
  /\ rq["r1"].obs.kind = "quiet"
  /\ DecodeBlock(Trim(Remainder(hist["r1"].text, 1))) # <<>>
  /\ Len(delivered["r1"]) = 2
  /\ delivered["r1"][2] = DecodeBlock(Trim(Remainder(hist["r1"].text, 1)))[1]

\* C10: a request cancelled while its buffer held a record that decodes to
\* an event has delivered that event to the observer when it settles.
C10_FlushOnCancel ==
  \A r \in Req :
    (Settled(r) /\ rq[r].result.error = "aborted" /\ hist[r].lost # <<>>)
      => (delivered[r] # <<>> /\ delivered[r][Len(delivered[r])] = hist[r].lost[1])

\* The step in which the async body of an aggregator ends: the result is
\* settled; what postSse threw makes it a failure, "aborted" for the
\* AbortError of an agent run and the error's message otherwise.
C11_SettleStep ==
  \A r \in Req :
    (rq[r].pc = "resuming" /\ rq'[r].pc = "settled")
      => LET o == rq[r].outcome
             res == rq'[r].result
         IN  /\ res.settled
             /\ o.kind = "throw" =>
                   /\ ~res.success
                   /\ IF rq[r].api = "agent" /\ o.name = "AbortError"
                        THEN res.error = "aborted"
                        ELSE res.error = o.message /\ res.error # "aborted"

\* C11: the result promise of a streaming call never rejects; an agent run
\* whose fetch or read failed with an AbortError settles as {success: false,
\* error: "aborted"}, every other failure of either aggregator as {success:
\* false, error: message} with a message that is not "aborted".
C11_FailurePolicy == [][C11_SettleStep]_vars

\* A chatStream call whose read failed at the network after an event was
\* delivered has settled as a failure with the error's message.
C11_Witness ==
  /\ Settled("r1") /\ rq["r1"].api = "chat"
  /\ ~rq["r1"].result.success /\ rq["r1"].result.error = NetworkError.message
  /\ delivered["r1"] # <<>>

\* The body of request r was read to its natural end and no abort call found
\* the request's entry.
NaturalEnd(r) == hist[r].wire # <<>> /\ hist[r].hit = "none"

\* C12: a request whose response was OK, whose body was read to its natural
\* end and which no abort call found settles with success = true, whatever
\* the records carried.
C12_SuccessUnlessTransport ==
  \A r \in Req : (Settled(r) /\ NaturalEnd(r)) => rq[r].result.success

\* The set of the tool names of the tool_start events of a list.
ToolNameSet(chunks) ==
  {Get(chunks[i], KeyToolName) :
     i \in {j \in DOMAIN chunks : /\ ~Nullish(chunks[j])
                                  /\ Get(chunks[j], KeyType) = JStr(TypeToolStart)
                                  /\ Truthy(Get(chunks[j], KeyToolName))}}

\* The events the final rescan gets through: those before the first null.
RECURSIVE Scanned(_)
Scanned(chunks) ==
  IF chunks = <<>> \/ Nullish(Head(chunks)) THEN <<>>
  ELSE <<Head(chunks)>> \o Scanned(Tail(chunks))

\* C13: while an agent run reads and when its event list is returned, the
\* tool names accumulated live are those of the tool_start events of the
\* list, and the final rescan of the list adds none.
C13_AggregatorConsistency ==
  \A r \in Req :
    (rq[r].api = "agent" /\ (rq[r].pc = "read" \/ ReturnedChunks(r)))
      => /\ {rq[r].toolsUsed[i] : i \in DOMAIN rq[r].toolsUsed} = ToolNameSet(rq[r].chunks)
         /\ Rescan(Scanned(rq[r].chunks), rq[r].toolsUsed) = rq[r].toolsUsed
         /\ Scanned(rq[r].chunks) = rq[r].chunks
              => Rescan(rq[r].chunks, <<>>) = rq[r].toolsUsed

\* An agent run has returned a list of three events, two of them tool_start
\* events of the one tool.
C13_Witness ==
  /\ ReturnedChunks("r1") /\ rq["r1"].api = "agent"
  /\ Len(rq["r1"].chunks) = 3
  /\ rq["r1"].toolsUsed = <<JStr(<<"search">>)>>
  /\ Cardinality({i \in 1..3 : Get(rq["r1"].chunks[i], KeyType) = JStr(TypeToolStart)}) = 2

\* The blocks emitBlock has been called with: those before each delimiter of
\* the text received and, once the loop has ended, the trimmed remainder.
AllBlocks(r) ==
  CompleteBlocks(hist[r].text, 1)
    \o (IF ReturnedChunks(r) THEN <<Trim(Remainder(hist[r].text, 1))>> ELSE <<>>)

\* The fallback event {content: payload}.
Fallback(payload) == JObj(<< <<KeyContent, JStr(payload)>> >>)

\* C14: decoding a record yields no event or one event and never raises: the
\* empty record and a record without payload yield none, every other record
\* yields one, which for a payload that is not JSON is {content: payload};
\* the read loop ends with an exception of the transport or not at all.
C14_DecoderTotal ==
  \A r \in Req :
    /\ (rq[r].pc = "read" \/ ReturnedChunks(r)) =>
          /\ \A i \in DOMAIN AllBlocks(r) :
                LET b == AllBlocks(r)[i]
                    evs == DecodeBlock(b)
                IN  /\ Len(evs) = (IF DataText(b) = <<>> THEN 0 ELSE 1)
                    /\ b = <<>> => evs = <<>>
                    /\ (DataText(b) # <<>> /\ ~JsonParse(DataText(b)).ok)
                         => evs = <<Fallback(DataText(b))>>
          /\ Len(rq[r].chunks)
               = Cardinality({i \in DOMAIN AllBlocks(r) : DataText(AllBlocks(r)[i]) # <<>>})
    /\ (rq[r].pc = "resuming" /\ rq[r].outcome.kind = "throw")
          => rq[r].outcome \in {AbortError, NetworkError, HttpError}

\* The event list returned holds a fallback event, and one of the blocks
\* gave no event.
C14_Witness ==
  /\ ReturnedChunks("r1")
  /\ \E i \in DOMAIN rq["r1"].chunks, j \in DOMAIN AllBlocks("r1") :
       /\ rq["r1"].chunks[i] = Fallback(DataText(AllBlocks("r1")[j]))
       /\ DataText(AllBlocks("r1")[j]) # <<>>
  /\ Len(rq["r1"].chunks) < Len(AllBlocks("r1"))

\* C15: with a caller's observer that throws on an event, the read loop
\* does not end with that exception, the event list and the deliveries hold
\* every event decoded, the throwing one and the later ones, and the agent
\* run's result is a success.
C15_ObserverContained ==
  \A r \in Req :
    rq[r].obs.kind = "throws" =>
      /\ (rq[r].pc = "read" \/ ReturnedChunks(r)) =>
            /\ rq[r].chunks = EventsOf(AllBlocks(r))
            /\ delivered[r] = rq[r].chunks
      /\ rq[r].pc = "resuming" => rq[r].outcome \in {Returned, NetworkError, HttpError}
      /\ ReturnedChunks(r) => AgentResult(rq[r]).success

\* The observer threw on the first event and has got a second one; the
\* event list is returned.
C15_Witness ==
  /\ ReturnedChunks("r1")
  /\ rq["r1"].obs = Observer("throws", 1)
  /\ Len(delivered["r1"]) >= 2
  /\ Len(rq["r1"].chunks) = Len(delivered["r1"])

\* The events of the whole text received from a body read to its end.
FinalEvents(r) ==
  EventsOf(CompleteBlocks(hist[r].text, 1) \o <<Trim(Remainder(hist[r].text, 1))>>)

\* The content strings of the events of type content, concatenated.
RECURSIVE ContentConcat(_)
ContentConcat(evs) ==
  IF evs = <<>> THEN <<>>
  ELSE (IF /\ ~Nullish(Head(evs))
           /\ Get(Head(evs), KeyType) = JStr(TypeContent)
           /\ Get(Head(evs), KeyContent).t = "str"
          THEN Get(Head(evs), KeyContent).s ELSE <<>>) \o ContentConcat(Tail(evs))

\* The tool names of the tool_start events, each once, in order of first
\* appearance.
RECURSIVE ToolNames(_, _)
ToolNames(evs, seen) ==
  IF evs = <<>> THEN <<>>
  ELSE LET e == Head(evs)
           isTool == /\ ~Nullish(e)
                     /\ Get(e, KeyType) = JStr(TypeToolStart)
                     /\ Get(e, KeyToolName).t = "str"
                     /\ Get(e, KeyToolName) \notin seen
       IN  IF isTool THEN <<Get(e, KeyToolName)>> \o ToolNames(Tail(evs), seen \cup {Get(e, KeyToolName)})
           ELSE ToolNames(Tail(evs), seen)

\* The usage payload of the last done event that carries one, or null.
RECURSIVE LastUsage(_)
LastUsage(evs) ==
  IF evs = <<>> THEN JNull
  ELSE LET e == evs[Len(evs)]
       IN  IF ~Nullish(e) /\ Get(e, KeyType) = JStr(TypeDone) /\ Get(e, KeyUsage).t = "obj"
             THEN Get(e, KeyUsage)
             ELSE LastUsage(SubSeq(evs, 1, Len(evs) - 1))

\* C16: an agent run whose stream completes settles with success = true,
\* its content the concatenation, in arrival order, of the content of the
\* events of type content, its toolsUsed the tool names, toolRounds their
\* number.
C16_AgentAggregate ==
  \A r \in Req :
    (Settled(r) /\ rq[r].api = "agent" /\ NaturalEnd(r))
      => /\ rq[r].result.success
         /\ rq[r].result.content = ContentConcat(FinalEvents(r))
         /\ rq[r].result.toolsUsed = ToolNames(FinalEvents(r), {})
         /\ rq[r].result.toolRounds = Len(rq[r].result.toolsUsed)

\* The aggregate of every agent run that settles as a success.
C16_AggregateOfSuccess ==
  \A r \in Req :
    (Settled(r) /\ rq[r].api = "agent" /\ rq[r].result.success)
      => /\ rq[r].result.content = ContentConcat(FinalEvents(r))
         /\ rq[r].result.toolsUsed = ToolNames(FinalEvents(r), {})
         /\ rq[r].result.toolRounds = Len(rq[r].result.toolsUsed)

\* C17: totalUsage of a successful agent run is the usage payload of the
\* last done event that carries one, and null when none does.
C17_TerminalUsage ==
  \A r \in Req :
    (Settled(r) /\ rq[r].api = "agent" /\ rq[r].result.success)
      => rq[r].result.totalUsage = LastUsage(FinalEvents(r))

\* A run with a done event of usage {tokens: 5} and a later one of usage
\* {tokens: 9} has settled with the later one.
C17_Witness ==
  /\ Settled("r1") /\ rq["r1"].api = "agent" /\ rq["r1"].result.success
  /\ rq["r1"].result.totalUsage = JObj(<< <<KeyTokens, JNum(9)>> >>)
  /\ \E i, j \in DOMAIN FinalEvents("r1") :
       /\ i < j
       /\ FinalEvents("r1")[i] = toCamelDeep(JsonValue(JD))
       /\ FinalEvents("r1")[j] = toCamelDeep(JsonValue(JU))

\* C18: the content of a successful chatStream call is the concatenation,
\* in arrival order, of the content of the events of type content; no other
\* event contributes.
C18_ChatContent ==
  \A r \in Req :
    (Settled(r) /\ rq[r].api = "chat" /\ rq[r].result.success)
      => rq[r].result.content = ContentConcat(FinalEvents(r))

\* C19: a request that failed at the transport or by an abort returns as
\* content the concatenation of the content delivered before the failure.
C19_PartialContent ==
  \A r \in Req :
    (/\ Settled(r)
     /\ ~rq[r].result.success
     /\ rq[r].result.error \in {"aborted", NetworkError.message, HttpError.message})
      => rq[r].result.content = ContentConcat(delivered[r])

\* After an abort call found the entry of a request whose read was pending,
\* no step delivers an event or adds to the text framed.
C20_NothingAfterAbort ==
  \A r \in Req :
    hist[r].hit = "read"
      => /\ delivered'[r] = delivered[r]
         /\ hist'[r].text \in {hist[r].text, <<>>}
         /\ Len(rq'[r].chunks) <= Len(rq[r].chunks)

\* Such a request is torn down by the AbortError of its read and settles as
\* aborted.
C20_TornDown ==
  \A r \in Req :
    hist[r].hit = "read"
      => /\ rq[r].pc \in {"read", "resuming", "settled"}
         /\ rq[r].pc = "resuming" => rq[r].outcome = AbortError
         /\ Settled(r) => (~rq[r].result.success /\ rq[r].result.error = "aborted")

\* C20: after an abort call made while the read loop awaits the next chunk,
\* no chunk is framed or delivered, the pending read fails, the result
\* settles as aborted, and what was delivered before stays delivered.
C20_CooperativeCancel == [][C20_NothingAfterAbort]_vars /\ []C20_TornDown

\* The observer has got the event of content H, the abort call came while
\* the next read was pending, and the run has settled as aborted.
C20_Witness ==
  /\ Settled("r1") /\ hist["r1"].hit = "read"
  /\ rq["r1"].result.error = "aborted"
  /\ delivered["r1"] = <<toCamelDeep(JsonValue(JC))>>

\* A subscription made by subscribeSse.
Subscribed(r) == rq[r].api = "subscribe" /\ rq[r].pc # "idle"

\* The stream of a subscription has closed: consumeSseResponse is over.
Closed(r) == Subscribed(r) /\ rq[r].pc \in {"resuming", "settled"}

\* subscribeSse returns while its fetch is pending; once the stream has
\* closed no step invokes the observer, and once the subscription has settled
\* no step changes what is left of it.
C21_StopStep ==
  \A r \in Req :
    /\ (rq[r].pc = "idle" /\ Subscribed(r)') => (rq'[r].pc = "fetch" /\ ~signal'[r])
    /\ Closed(r) => delivered'[r] = delivered[r]
    /\ (Subscribed(r) /\ Settled(r)) => rq'[r] = rq[r]

\* A subscription stopped while its fetch or a read was pending ends without
\* a logged failure.
C21_StopNotLogged ==
  \A r \in Req :
    (Subscribed(r) /\ Settled(r) /\ hist[r].hit \in {"fetch", "read"})
      => (~rq[r].result.success /\ rq[r].result.error = "")

\* C21: subscribeSse returns its stop function before the response arrives;
\* the stop function can be called at any time and any number of times, a
\* cancellation it causes is not logged as a failure, and after the stream
\* has closed a call changes nothing and the observer is invoked no more.
C21_StopFunction == [][C21_StopStep]_vars /\ []C21_StopNotLogged

\* The observer has got an event, the stop function was called while the
\* next read was pending, and the subscription has ended with nothing logged.
C21_Witness ==
  /\ Subscribed("r1") /\ Settled("r1")
  /\ hist["r1"].hit = "read" /\ signal["r1"]
  /\ delivered["r1"] # <<>>
  /\ rq["r1"].result.error = ""

\* An abort call signals the handle of a registered id and removes the entry
\* in the step that issues its notification, and every abort call issues
\* one; the step in which a notification ends changes nothing else.
C22_AbortStep ==
  /\ \A id \in Ids :
       Abort(id) => /\ notes' = notes + 1
                    /\ id \in DOMAIN activeAgentRequests
                         => /\ signal'[activeAgentRequests[id]]
                            /\ id \notin DOMAIN activeAgentRequests'
  /\ notes' < notes => UNCHANGED <<activeAgentRequests, rq, signal, delivered>>

\* A run whose entry an abort call found while its fetch or a read was
\* pending settles as aborted, however the notification ended.
C22_AbortedLocally ==
  \A r \in Req :
    (Settled(r) /\ hist[r].hit \in {"fetch", "read"})
      => (~rq[r].result.success /\ rq[r].result.error = "aborted")

\* C22: agentApi.abort signals the handle and removes the entry before its
\* notification is out, sends the notification on every call, and neither
\* the registry nor the aborted run's result depends on how or when the
\* notification ends.
C22_LocalAbortFirst == [][C22_AbortStep]_vars /\ []C22_AbortedLocally

\* A run aborted while reading has settled as aborted with the registry
\* empty, after one notification failed and while another is in flight.
C22_Witness ==
  /\ \E r \in Req : Settled(r) /\ hist[r].hit = "read" /\ rq[r].result.error = "aborted"
  /\ activeAgentRequests = EmptyMap
  /\ abortSettled = "rejected"
  /\ notes = 1

\* An abort call naming the id of run a leaves run b as it was: its entry,
\* its signal, its locals and result, and what its observer has got.
AbortLeaves(id, a, b) ==
  (Abort(id) /\ InFlight(a) /\ rq[a].id = id)
    => /\ signal'[b] = signal[b]
       /\ Registered(activeAgentRequests', b) = Registered(activeAgentRequests, b)
       /\ rq'[b] = rq[b]
       /\ delivered'[b] = delivered[b]

\* C23: an abort call naming the id of run A signals the handle of A alone
\* and removes the entry of A alone; every other run B keeps its entry, its
\* signal, its buffer, its deliveries and its result.
C23_AbortIsolated ==
  [][\A id \in Ids, a \in Req, b \in Req : b # a => AbortLeaves(id, a, b)]_vars

\* The same for runs with different ids.
C23_IsolatedWhenDistinct ==
  [][\A id \in Ids, a \in Req, b \in Req :
       (b # a /\ rq[b].id # rq[a].id) => AbortLeaves(id, a, b)]_vars

\* A payload line without its prefix and without the one space that may
\* follow the prefix.
StripOneSpace(s) == IF s # <<>> /\ Head(s) = SP THEN Tail(s) ELSE s

\* The lines of a block that begin with data:, each without the prefix and
\* at most one following space.
RECURSIVE PayloadLines(_)
PayloadLines(lines) ==
  IF lines = <<>> THEN <<>>
  ELSE IF StartsWith(Head(lines), DataPrefix)
         THEN <<StripOneSpace(SubSeq(Head(lines), Len(DataPrefix) + 1, Len(Head(lines))))>>
              \o PayloadLines(Tail(lines))
         ELSE PayloadLines(Tail(lines))

\* The payload of a block: those lines joined with a newline.
PayloadOf(block) == JoinLines(PayloadLines(SplitLines(block)))

\* The event of a payload: parsed, or the fallback, with keys in camel case.
EventOfPayload(payload) ==
  IF payload = <<>> THEN <<>>
  ELSE <<toCamelDeep(IF JsonParse(payload).ok THEN JsonParse(payload).value
                     ELSE Fallback(payload))>>

RECURSIVE EventsOfPayloads(_)
EventsOfPayloads(blocks) ==
  IF blocks = <<>> THEN <<>>
  ELSE EventOfPayload(PayloadOf(Head(blocks))) \o EventsOfPayloads(Tail(blocks))

\* C24: the payload of a record is its lines beginning with data:, each
\* without that prefix and at most one following space, joined with a
\* newline; the events made while the read loop runs are the events of those
\* payloads.
C24_PayloadExtraction ==
  \A r \in Req :
    (Subscribed(r) /\ rq[r].pc = "read")
      => rq[r].chunks = EventsOfPayloads(CompleteBlocks(hist[r].text, 1))

\* No payload line of the block begins with white space once the prefix and
\* one space are gone.
NoSecondSpace(block) ==
  \A i \in DOMAIN PayloadLines(SplitLines(block)) :
    LET line == PayloadLines(SplitLines(block))[i]
    IN  line = <<>> \/ Head(line) \notin WhiteSpace

\* For such blocks the code's payload is the payload of the claim.
C24_UpToOneSpace ==
  \A r \in Req :
    (Subscribed(r) /\ rq[r].pc = "read")
      => \A i \in DOMAIN CompleteBlocks(hist[r].text, 1) :
           LET block == CompleteBlocks(hist[r].text, 1)[i]
           IN  NoSecondSpace(block) => DataText(block) = PayloadOf(block)

\* What emitBlock has parsed from a block, before toCamelDeep.
ParsedOf(block) ==
  IF block = <<>> \/ DataText(block) = <<>> THEN <<>>
  ELSE <<IF JsonParse(DataText(block)).ok THEN JsonParse(DataText(block)).value
         ELSE Fallback(DataText(block))>>

RECURSIVE ParsedEvents(_)
ParsedEvents(blocks) ==
  IF blocks = <<>> THEN <<>> ELSE ParsedOf(Head(blocks)) \o ParsedEvents(Tail(blocks))

\* A key in snake case: an underscore before a lower-case letter.
HasSnake(key) == \E i \in 1..(Len(key) - 1) : key[i] = "_" /\ IsLower(key[i + 1])

\* No object of the value, at any depth, has a key in snake case.
RECURSIVE NoSnakeKeys(_)
NoSnakeKeys(value) ==
  CASE value.t = "obj" ->
         \A i \in DOMAIN value.kv : ~HasSnake(value.kv[i][1]) /\ NoSnakeKeys(value.kv[i][2])
    [] value.t = "arr" -> \A i \in DOMAIN value.a : NoSnakeKeys(value.a[i])
    [] OTHER -> TRUE

\* The value without its keys: each object as the array of its values.
RECURSIVE KeyBlind(_)
KeyBlind(value) ==
  CASE value.t = "obj" -> JArr([i \in DOMAIN value.kv |-> KeyBlind(value.kv[i][2])])
    [] value.t = "arr" -> JArr([i \in DOMAIN value.a |-> KeyBlind(value.a[i])])
    [] OTHER -> value

\* {"type":"ping","toolArgs":[{"maxResults":7}]}
CamelOfJG ==
  JObj(<< <<KeyType, JStr(TypePing)>>,
          <<KeyToolArgs, JArr(<< JObj(<< <<KeyMaxResults, JNum(7)>> >>) >>)>> >>)

\* C25: every event made has the keys of all its objects, at every depth
\* and inside arrays, in camel case, and its values as they were parsed; an
\* event sent with tool_name is the event sent with toolName.
C25_KeysNormalised ==
  \A r \in Req :
    (Subscribed(r) /\ rq[r].pc = "read")
      => LET parsed == ParsedEvents(CompleteBlocks(hist[r].text, 1))
         IN  /\ Len(rq[r].chunks) = Len(parsed)
             /\ \A i \in DOMAIN parsed :
                  /\ NoSnakeKeys(rq[r].chunks[i])
                  /\ KeyBlind(rq[r].chunks[i]) = KeyBlind(parsed[i])
                  /\ parsed[i] \in {JsonValue(JT), JsonValue(JK)}
                       => rq[r].chunks[i] = JsonValue(JK)
                  /\ parsed[i] = JsonValue(JG) => rq[r].chunks[i] = CamelOfJG

\* Events have been made of a payload with tool_name, of one with toolName
\* and of one with snake-case keys inside an array.
C25_Witness ==
  /\ Subscribed("r1") /\ rq["r1"].pc = "read"
  /\ LET parsed == ParsedEvents(CompleteBlocks(hist["r1"].text, 1))
     IN  {JsonValue(JT), JsonValue(JK), JsonValue(JG)} \subseteq {parsed[i] : i \in DOMAIN parsed}

\* Two consecutive line terminators, each LF or CR LF, in a text.
HasRecordDelimiter(s) == IndexOfDelim(ReplaceCRLF(s)) # 0

\* C26: while the read loop awaits the next chunk the buffer holds no record
\* delimiter: every complete record received has been cut out, and at most
\* one partial record is pending.
C26_NoDelimiterAtRest ==
  \A r \in Req : rq[r].pc = "read" => ~HasRecordDelimiter(rq[r].buffer)

\* The same for the delimiter the loop scans for, two line feeds.
C26_NoLiteralDelimiter ==
  \A r \in Req : rq[r].pc = "read" => IndexOfDelim(rq[r].buffer) = 0

\* What follows the prefix on the lines of a block that begin with data:.
RECURSIVE DataRests(_)
DataRests(lines) ==
  IF lines = <<>> THEN <<>>
  ELSE (IF StartsWith(Head(lines), DataPrefix)
          THEN <<SubSeq(Head(lines), Len(DataPrefix) + 1, Len(Head(lines)))>>
          ELSE <<>>) \o DataRests(Tail(lines))

\* The block has a payload: two data lines or more, or one that is not empty.
HasPayload(block) ==
  LET rests == DataRests(SplitLines(block))
  IN  Len(rests) >= 2 \/ (Len(rests) = 1 /\ Trim(rests[1]) # <<>>)

\* The block has a data line that is not empty.
HasFilledLine(block) ==
  \E i \in DOMAIN DataRests(SplitLines(block)) : Trim(DataRests(SplitLines(block))[i]) # <<>>

\* C27 as stated: a record with no data line, or with data lines of empty
\* payload only, gives no event; the events made and delivered are those of
\* the other records, in order.
C27_EmptyLinesNoEvent ==
  \A r \in Req :
    (Subscribed(r) /\ rq[r].pc = "read")
      => rq[r].chunks = EventsOf(SelectSeq(CompleteBlocks(hist[r].text, 1), HasFilledLine))

\* C27: a record with no data line, or with one data line of empty payload,
\* gives no event: nothing is appended to the event list and the observer is
\* not invoked; the events made and delivered are those of the other
\* records, one each, in order.
C27_NoPayloadNoEvent ==
  \A r \in Req :
    (Subscribed(r) /\ rq[r].pc = "read")
      => LET blocks == CompleteBlocks(hist[r].text, 1)
         IN  /\ rq[r].chunks = EventsOf(SelectSeq(blocks, HasPayload))
             /\ Len(rq[r].chunks) = Len(SelectSeq(blocks, HasPayload))
             /\ rq[r].obs.kind # "none" => delivered[r] = rq[r].chunks

\* A record of a comment line and a record of an empty data line have gone
\* by without an event, and the record after them has been delivered.
C27_Witness ==
  /\ Subscribed("r1") /\ rq["r1"].pc = "read"
  /\ hist["r1"].text = <<":", "k", LF, LF>> \o DataPrefix \o <<LF, LF>> \o DataPrefix \o <<JC, LF, LF>>
  /\ delivered["r1"] = <<toCamelDeep(JsonValue(JC))>>

\* What runStream returns for the body `wire` when the caller gives no
\* observer and the stream ends by itself.
UnobservedRun(wire) ==
  LET w0 == [reg |-> EmptyMap, sig |-> [x \in Req |-> FALSE], notes |-> 0,
             hit |-> [x \in Req |-> "none"], pcs |-> [x \in Req |-> "read"],
             q |-> IdleReq, del |-> <<>>, h |-> NoHist]
      w1 == OnDone(IF wire = <<>> THEN w0 ELSE OnRead(w0, wire))
  IN  AgentResult(Unwind(w1.q, Returned))

Stopped == poller.stopAt # NoStop

\* After the stop function was called no request has been issued, and the
\* callback has been invoked at most once more, and only if a request was
\* in flight at the call; a request or a time-out then pending stems from
\* that request.
C29_AfterStop ==
  Stopped
    => /\ ~poller.active
       /\ poller.polls = poller.stopAt.polls
       /\ Len(poller.got) <= poller.stopAt.calls + (IF poller.stopAt.pc = "request" THEN 1 ELSE 0)
       /\ poller.pc = "request" => Len(poller.got) = poller.stopAt.calls
       /\ poller.pc \in {"request", "timer"} => poller.stopAt.pc = "request"

\* After the stop function was called a time-out, once set, is not set
\* again, and polling that is over stays over.
C29_StopStep ==
  Stopped
    => /\ poller.pc = "timer" => poller'.pc \in {"timer", "over"}
       /\ poller.pc = "over" => poller'.pc = "over"

\* C29: after the stop function of onImportProgress is called no progress
\* request is issued, the callback is invoked at most once more, for a poll
\* that was in flight, and the chain of time-outs ends: a time-out pending
\* after the call fires once and sets no other.
C29_StopEndsPolling ==
  /\ []C29_AfterStop
  /\ [][C29_StopStep]_vars
  /\ ((Stopped /\ poller.pc = "timer") ~> (poller.pc = "over"))

\* The stop function was called while a request was in flight; the callback
\* has got that poll's snapshot, of a stage that ends nothing, the time-out
\* set after it has fired, and polling is over with no further request.
C29_Witness ==
  /\ Stopped /\ poller.stopAt.pc = "request"
  /\ Len(poller.got) = poller.stopAt.calls + 1
  /\ ~Terminal(poller.got[Len(poller.got)])
  /\ poller.polls = poller.stopAt.polls
  /\ poller.pc = "over"

\* C30: the callback gets at most one snapshot of stage done or error, and
\* none after it, whatever the callback does.
C30_TerminalIsLast ==
  \A i \in 1..(Len(poller.got) - 1) : ~Terminal(poller.got[i])

\* The same for a callback that returns; and polling is over once such a
\* callback has got a snapshot of stage done or error.
C30_TerminalIsLastIfReturns ==
  poller.callback = "returns"
    => /\ \A i \in 1..(Len(poller.got) - 1) : ~Terminal(poller.got[i])
       /\ (poller.got # <<>> /\ Terminal(poller.got[Len(poller.got)])) => poller.pc = "over"

\* A failed request sets the time-out of the next poll, and the time-out of
\* an active subscription issues the next request.
C30_FailedPollGoesOn ==
  [][/\ PollReject => poller'.pc = "timer"
     /\ (PollTimer /\ poller.active) => (poller'.pc = "request" /\ poller'.polls = poller.polls + 1)]_vars

====
